---- MODULE Spec2Model ----
(***************************************************************************)
(* A model of the chess rules engine (scripts/chess_game.py) and of the    *)
(* minimax search that plays it (scripts/chess_bot.py).                    *)
(*                                                                         *)
(* A ChessBoard is a record with the fields of the Python object; a Piece  *)
(* is a record [type, color, has_moved]; an empty square is the record     *)
(* None.  Squares are <<row, col>> with row 0 the eighth rank, as in the   *)
(* source.  Methods that the source runs on `self` take the board record   *)
(* as their first argument; methods that could write to `self` return      *)
(* [self |-> the board after the call, result |-> the returned value].     *)
(***************************************************************************)
EXTENDS Integers, Sequences, FiniteSets, TLC

VARIABLES
    board,      \* ChessGame.board: the authoritative ChessBoard
    last,       \* the last call the driver made on it, and what it returned
    bot,        \* ChessGame.bot: the ChessBot, or NoBot in a game without one
    search      \* the call stack of a running get_best_move: one frame per
                \* loop over moves that is under way, the root loop first

vars == <<board, last, bot, search>>

----------------------------------------------------------------------------
(* Piece, Color, Move                                                      *)

WHITE == "white"
BLACK == "black"
Colors == {WHITE, BLACK}

PAWN == "p"
ROOK == "r"
KNIGHT == "n"
BISHOP == "b"
QUEEN == "q"
KING == "k"

None == [type |-> "none", color |-> "none", has_moved |-> FALSE]

Piece(piece_type, color) ==
    [type |-> piece_type, color |-> color, has_moved |-> FALSE]

NoPromotion == "none"
NoTarget == <<>>

Move(from_pos, to_pos, promotion, is_castling, is_en_passant) ==
    [from_pos |-> from_pos, to_pos |-> to_pos, promotion |-> promotion,
     is_castling |-> is_castling, is_en_passant |-> is_en_passant]

PlainMove(from_pos, to_pos) == Move(from_pos, to_pos, NoPromotion, FALSE, FALSE)

\* Move.__eq__: origin, destination and promotion; the flags are not compared
MoveEq(a, b) ==
    /\ a.from_pos = b.from_pos
    /\ a.to_pos = b.to_pos
    /\ a.promotion = b.promotion

\* `move in legal_moves`, with Move.__eq__
MoveIn(move, moves) == \E i \in 1..Len(moves) : MoveEq(move, moves[i])

Opponent(color) == IF color = WHITE THEN BLACK ELSE WHITE

Abs(x) == IF x < 0 THEN -x ELSE x

----------------------------------------------------------------------------
(* ChessBoard: construction and square access                              *)

piece_order == <<ROOK, KNIGHT, BISHOP, QUEEN, KING, BISHOP, KNIGHT, ROOK>>

setup_initial_position ==
    [row \in 0..7 |-> [col \in 0..7 |->
        CASE row = 0 -> Piece(piece_order[col + 1], BLACK)
          [] row = 1 -> Piece(PAWN, BLACK)
          [] row = 6 -> Piece(PAWN, WHITE)
          [] row = 7 -> Piece(piece_order[col + 1], WHITE)
          [] OTHER -> None]]

NewChessBoard ==
    [board |-> setup_initial_position,
     current_player |-> WHITE,
     move_history |-> <<>>,
     en_passant_target |-> NoTarget,
     halfmove_clock |-> 0,
     fullmove_number |-> 1]

is_valid_position(row, col) == row >= 0 /\ row < 8 /\ col >= 0 /\ col < 8

get_piece(b, row, col) ==
    IF is_valid_position(row, col) THEN b.board[row][col] ELSE None

set_piece(b, row, col, piece) ==
    IF is_valid_position(row, col)
    THEN [b EXCEPT !.board[row][col] = piece]
    ELSE b

\* the squares in the order of the two nested range(8) loops
AllSquares == [i \in 1..64 |-> <<(i - 1) \div 8, (i - 1) % 8>>]

get_all_pieces(b, color) ==
    SelectSeq(AllSquares,
              LAMBDA s : b.board[s[1]][s[2]] # None
                         /\ b.board[s[1]][s[2]].color = color)

KingSquares(b, color) ==
    SelectSeq(AllSquares,
              LAMBDA s : b.board[s[1]][s[2]].type = KING
                         /\ b.board[s[1]][s[2]].color = color)

\* the first king of the color in row-major order, or NoTarget for Python's None
find_king(b, color) ==
    LET ks == KingSquares(b, color)
    IN IF Len(ks) = 0 THEN NoTarget ELSE ks[1]

----------------------------------------------------------------------------
(* Attacks                                                                 *)

Sign(from, to) == IF from = to THEN 0 ELSE IF to > from THEN 1 ELSE -1

\* the while loop walks from the square after `from` up to, not including, `to`;
\* every caller has checked that the two squares share a line
is_path_clear(b, from_row, from_col, to_row, to_col) ==
    LET row_step == Sign(from_row, to_row)
        col_step == Sign(from_col, to_col)
        dist == IF Abs(to_row - from_row) > Abs(to_col - from_col)
                THEN Abs(to_row - from_row) ELSE Abs(to_col - from_col)
    IN \A k \in 1..(dist - 1) :
          get_piece(b, from_row + k * row_step, from_col + k * col_step) = None

can_pawn_attack(from_row, from_col, to_row, to_col, color) ==
    LET direction == IF color = WHITE THEN -1 ELSE 1
    IN to_row = from_row + direction /\ Abs(to_col - from_col) = 1

can_rook_move(b, from_row, from_col, to_row, to_col) ==
    IF from_row # to_row /\ from_col # to_col
    THEN FALSE
    ELSE is_path_clear(b, from_row, from_col, to_row, to_col)

can_knight_move(from_row, from_col, to_row, to_col) ==
    LET row_diff == Abs(to_row - from_row)
        col_diff == Abs(to_col - from_col)
    IN (row_diff = 2 /\ col_diff = 1) \/ (row_diff = 1 /\ col_diff = 2)

can_bishop_move(b, from_row, from_col, to_row, to_col) ==
    IF Abs(to_row - from_row) # Abs(to_col - from_col)
    THEN FALSE
    ELSE is_path_clear(b, from_row, from_col, to_row, to_col)

can_king_move(from_row, from_col, to_row, to_col) ==
    Abs(to_row - from_row) <= 1 /\ Abs(to_col - from_col) <= 1

can_piece_attack_square(b, from_row, from_col, to_row, to_col) ==
    LET piece == get_piece(b, from_row, from_col)
    IN CASE piece = None -> FALSE
         [] piece.type = PAWN ->
                can_pawn_attack(from_row, from_col, to_row, to_col, piece.color)
         [] piece.type = ROOK ->
                can_rook_move(b, from_row, from_col, to_row, to_col)
         [] piece.type = KNIGHT ->
                can_knight_move(from_row, from_col, to_row, to_col)
         [] piece.type = BISHOP ->
                can_bishop_move(b, from_row, from_col, to_row, to_col)
         [] piece.type = QUEEN ->
                \/ can_rook_move(b, from_row, from_col, to_row, to_col)
                \/ can_bishop_move(b, from_row, from_col, to_row, to_col)
         [] piece.type = KING ->
                can_king_move(from_row, from_col, to_row, to_col)
         [] OTHER -> FALSE

is_square_attacked(b, row, col, by_color) ==
    \E r \in 0..7, c \in 0..7 :
        /\ b.board[r][c].color = by_color
        /\ can_piece_attack_square(b, r, c, row, col)

is_in_check(b, color) ==
    LET king_pos == find_king(b, color)
    IN IF king_pos = NoTarget
       THEN FALSE
       ELSE is_square_attacked(b, king_pos[1], king_pos[2], Opponent(color))

----------------------------------------------------------------------------
(* Pseudo-legal move generation, in the order the source appends moves     *)

PromotionPieces == <<QUEEN, ROOK, BISHOP, KNIGHT>>

\* PromotionMoves changed to offer the move unpromoted
PromotionMoves_unpromoted(from_pos, to_pos) ==
    <<PlainMove(from_pos, to_pos)>>

PromotionMoves(from_pos, to_pos) ==
    [i \in 1..4 |-> Move(from_pos, to_pos, PromotionPieces[i], FALSE, FALSE)]

PawnCaptures(b, row, col, color, new_row, new_col, promotion_row) ==
    IF is_valid_position(new_row, new_col)
    THEN LET target_piece == get_piece(b, new_row, new_col)
         IN (IF target_piece # None /\ target_piece.color # color
             THEN IF new_row = promotion_row
                  THEN PromotionMoves(<<row, col>>, <<new_row, new_col>>)
                  ELSE <<PlainMove(<<row, col>>, <<new_row, new_col>>)>>
             ELSE <<>>)
            \o
            (IF b.en_passant_target # NoTarget
                /\ b.en_passant_target = <<new_row, new_col>>
             THEN <<Move(<<row, col>>, <<new_row, new_col>>, NoPromotion, FALSE, TRUE)>>
             ELSE <<>>)
    ELSE <<>>

generate_pawn_moves(b, row, col, color) ==
    LET direction == IF color = WHITE THEN -1 ELSE 1
        start_row == IF color = WHITE THEN 6 ELSE 1
        promotion_row == IF color = WHITE THEN 0 ELSE 7
        new_row == row + direction
        forward ==
            IF is_valid_position(new_row, col) /\ get_piece(b, new_row, col) = None
            THEN IF new_row = promotion_row
                 THEN PromotionMoves(<<row, col>>, <<new_row, col>>)
                 ELSE <<PlainMove(<<row, col>>, <<new_row, col>>)>>
                      \o (IF row = start_row
                             /\ get_piece(b, new_row + direction, col) = None
                          THEN <<PlainMove(<<row, col>>, <<new_row + direction, col>>)>>
                          ELSE <<>>)
            ELSE <<>>
    IN forward
       \o PawnCaptures(b, row, col, color, new_row, col - 1, promotion_row)
       \o PawnCaptures(b, row, col, color, new_row, col + 1, promotion_row)

\* one direction of a sliding piece: the inner `for i in range(1, 8)` loop
RECURSIVE SlideMoves(_, _, _, _, _, _)
SlideMoves(b, row, col, row_dir, col_dir, i) ==
    LET new_row == row + i * row_dir
        new_col == col + i * col_dir
        target_piece == get_piece(b, new_row, new_col)
    IN IF i > 7 \/ ~is_valid_position(new_row, new_col)
       THEN <<>>
       ELSE IF target_piece # None
            THEN IF target_piece.color # get_piece(b, row, col).color
                 THEN <<PlainMove(<<row, col>>, <<new_row, new_col>>)>>
                 ELSE <<>>
            ELSE <<PlainMove(<<row, col>>, <<new_row, new_col>>)>>
                 \o SlideMoves(b, row, col, row_dir, col_dir, i + 1)

generate_rook_moves(b, row, col) ==
    SlideMoves(b, row, col, 0, 1, 1) \o SlideMoves(b, row, col, 0, -1, 1)
    \o SlideMoves(b, row, col, 1, 0, 1) \o SlideMoves(b, row, col, -1, 0, 1)

generate_bishop_moves(b, row, col) ==
    SlideMoves(b, row, col, 1, 1, 1) \o SlideMoves(b, row, col, 1, -1, 1)
    \o SlideMoves(b, row, col, -1, 1, 1) \o SlideMoves(b, row, col, -1, -1, 1)

generate_queen_moves(b, row, col) ==
    generate_rook_moves(b, row, col) \o generate_bishop_moves(b, row, col)

knight_moves ==
    << <<2, 1>>, <<2, -1>>, <<-2, 1>>, <<-2, -1>>,
       <<1, 2>>, <<1, -2>>, <<-1, 2>>, <<-1, -2>> >>

\* the moves by fixed offsets onto a square that is empty or holds another color
StepMoves(b, row, col, offsets, color) ==
    SelectSeq([i \in 1..Len(offsets) |->
                  PlainMove(<<row, col>>,
                            <<row + offsets[i][1], col + offsets[i][2]>>)],
              LAMBDA m :
                  /\ is_valid_position(m.to_pos[1], m.to_pos[2])
                  /\ \/ get_piece(b, m.to_pos[1], m.to_pos[2]) = None
                     \/ get_piece(b, m.to_pos[1], m.to_pos[2]).color # color)

generate_knight_moves(b, row, col) ==
    StepMoves(b, row, col, knight_moves, get_piece(b, row, col).color)

king_offsets ==
    << <<-1, -1>>, <<-1, 0>>, <<-1, 1>>, <<0, -1>>,
       <<0, 1>>, <<1, -1>>, <<1, 0>>, <<1, 1>> >>

\* generate_king_moves changed to castle across attacked squares
generate_king_moves_across(b, row, col, color) ==
    LET king == get_piece(b, row, col)
        rookK == get_piece(b, row, 7)
        rookQ == get_piece(b, row, 0)
        kingside ==
            IF /\ rookK # None /\ rookK.type = ROOK /\ ~rookK.has_moved
               /\ get_piece(b, row, 5) = None /\ get_piece(b, row, 6) = None
            THEN <<Move(<<row, col>>, <<row, 6>>, NoPromotion, TRUE, FALSE)>>
            ELSE <<>>
        queenside ==
            IF /\ rookQ # None /\ rookQ.type = ROOK /\ ~rookQ.has_moved
               /\ get_piece(b, row, 1) = None /\ get_piece(b, row, 2) = None
               /\ get_piece(b, row, 3) = None
            THEN <<Move(<<row, col>>, <<row, 2>>, NoPromotion, TRUE, FALSE)>>
            ELSE <<>>
    IN StepMoves(b, row, col, king_offsets, color)
       \o (IF ~king.has_moved /\ ~is_in_check(b, color)
           THEN kingside \o queenside
           ELSE <<>>)

generate_king_moves(b, row, col, color) ==
    LET king == get_piece(b, row, col)
        rookK == get_piece(b, row, 7)
        rookQ == get_piece(b, row, 0)
        kingside ==
            IF /\ rookK # None /\ rookK.type = ROOK /\ ~rookK.has_moved
               /\ get_piece(b, row, 5) = None /\ get_piece(b, row, 6) = None
               /\ ~is_square_attacked(b, row, 5, Opponent(color))
               /\ ~is_square_attacked(b, row, 6, Opponent(color))
            THEN <<Move(<<row, col>>, <<row, 6>>, NoPromotion, TRUE, FALSE)>>
            ELSE <<>>
        queenside ==
            IF /\ rookQ # None /\ rookQ.type = ROOK /\ ~rookQ.has_moved
               /\ get_piece(b, row, 1) = None /\ get_piece(b, row, 2) = None
               /\ get_piece(b, row, 3) = None
               /\ ~is_square_attacked(b, row, 2, Opponent(color))
               /\ ~is_square_attacked(b, row, 3, Opponent(color))
            THEN <<Move(<<row, col>>, <<row, 2>>, NoPromotion, TRUE, FALSE)>>
            ELSE <<>>
    IN StepMoves(b, row, col, king_offsets, color)
       \o (IF ~king.has_moved /\ ~is_in_check(b, color)
           THEN kingside \o queenside
           ELSE <<>>)

generate_piece_moves(b, row, col, piece) ==
    CASE piece.type = PAWN -> generate_pawn_moves(b, row, col, piece.color)
      [] piece.type = ROOK -> generate_rook_moves(b, row, col)
      [] piece.type = KNIGHT -> generate_knight_moves(b, row, col)
      [] piece.type = BISHOP -> generate_bishop_moves(b, row, col)
      [] piece.type = QUEEN -> generate_queen_moves(b, row, col)
      [] piece.type = KING -> generate_king_moves(b, row, col, piece.color)
      [] OTHER -> <<>>

----------------------------------------------------------------------------
(* Applying a move                                                         *)

handle_castling(b, move) ==
    LET from_row == move.from_pos[1]
        from_col == move.from_pos[2]
        to_row == move.to_pos[1]
        to_col == move.to_pos[2]
        king == get_piece(b, from_row, from_col)
        b1 == set_piece(set_piece(b, to_row, to_col, king), from_row, from_col, None)
    IN IF to_col = 6
       THEN set_piece(set_piece(b1, from_row, 5, get_piece(b1, from_row, 7)),
                      from_row, 7, None)
       ELSE set_piece(set_piece(b1, from_row, 3, get_piece(b1, from_row, 0)),
                      from_row, 0, None)

\* handle_en_passant changed to empty the square on the destination's rank
\* and the origin's file
handle_en_passant_file(b, move) ==
    LET from_row == move.from_pos[1]
        from_col == move.from_pos[2]
        to_row == move.to_pos[1]
        to_col == move.to_pos[2]
        pawn == get_piece(b, from_row, from_col)
        b1 == set_piece(set_piece(b, to_row, to_col, pawn), from_row, from_col, None)
    IN set_piece(b1, to_row, from_col, None)

handle_en_passant(b, move) ==
    LET from_row == move.from_pos[1]
        from_col == move.from_pos[2]
        to_row == move.to_pos[1]
        to_col == move.to_pos[2]
        pawn == get_piece(b, from_row, from_col)
        b1 == set_piece(set_piece(b, to_row, to_col, pawn), from_row, from_col, None)
    IN set_piece(b1, from_row, to_col, None)

\* update_en_passant_target changed to leave an old target standing
update_en_passant_target_stale(b, move, piece) ==
    IF piece.type = PAWN /\ Abs(move.to_pos[1] - move.from_pos[1]) = 2
    THEN [b EXCEPT !.en_passant_target =
              <<(move.from_pos[1] + move.to_pos[1]) \div 2, move.to_pos[2]>>]
    ELSE b

update_en_passant_target(b, move, piece) ==
    IF piece.type = PAWN /\ Abs(move.to_pos[1] - move.from_pos[1]) = 2
    THEN [b EXCEPT !.en_passant_target =
              <<(move.from_pos[1] + move.to_pos[1]) \div 2, move.to_pos[2]>>]
    ELSE [b EXCEPT !.en_passant_target = NoTarget]

\* the halfmove clock after a move: the test reads the destination square after
\* the piece has been put on it
halfmove_update(b, piece, to_row, to_col) ==
    IF piece.type = PAWN \/ get_piece(b, to_row, to_col) # None
    THEN 0
    ELSE b.halfmove_clock + 1

\* switch_players changed to leave the turn with the side that moved
switch_players_kept(current_player) == current_player

\* `Color.BLACK if self.current_player == Color.WHITE else Color.WHITE`
switch_players(current_player) ==
    IF current_player = WHITE THEN BLACK ELSE WHITE

\* make_move_body changed to leave has_moved as it finds it
make_move_body_unmarked(self, move) ==
    LET from_row == move.from_pos[1]
        from_col == move.from_pos[2]
        to_row == move.to_pos[1]
        to_col == move.to_pos[2]
        piece == get_piece(self, from_row, from_col)
        relocated ==
            IF move.is_castling THEN handle_castling(self, move)
            ELSE IF move.is_en_passant THEN handle_en_passant(self, move)
            ELSE LET plain == set_piece(set_piece(self, to_row, to_col, piece),
                                        from_row, from_col, None)
                 IN IF move.promotion # NoPromotion
                    THEN set_piece(plain, to_row, to_col,
                                   Piece(move.promotion, piece.color))
                    ELSE plain
        marked == relocated
        targeted == update_en_passant_target(marked, move, piece)
    IN IF piece = None
       THEN [self |-> self, result |-> FALSE]
       ELSE [self |->
                [targeted EXCEPT
                    !.move_history = Append(@, move),
                    !.halfmove_clock = halfmove_update(targeted, piece, to_row, to_col),
                    !.fullmove_number =
                        IF self.current_player = BLACK THEN @ + 1 ELSE @,
                    !.current_player = switch_players(self.current_player)],
             result |-> TRUE]

\* make_move_body changed to count a full move after White's moves
make_move_body_white_counts(self, move) ==
    LET from_row == move.from_pos[1]
        from_col == move.from_pos[2]
        to_row == move.to_pos[1]
        to_col == move.to_pos[2]
        piece == get_piece(self, from_row, from_col)
        relocated ==
            IF move.is_castling THEN handle_castling(self, move)
            ELSE IF move.is_en_passant THEN handle_en_passant(self, move)
            ELSE LET plain == set_piece(set_piece(self, to_row, to_col, piece),
                                        from_row, from_col, None)
                 IN IF move.promotion # NoPromotion
                    THEN set_piece(plain, to_row, to_col,
                                   Piece(move.promotion, piece.color))
                    ELSE plain
        marked ==
            IF get_piece(relocated, to_row, to_col) # None
            THEN [relocated EXCEPT !.board[to_row][to_col].has_moved = TRUE]
            ELSE relocated
        targeted == update_en_passant_target(marked, move, piece)
    IN IF piece = None
       THEN [self |-> self, result |-> FALSE]
       ELSE [self |->
                [targeted EXCEPT
                    !.move_history = Append(@, move),
                    !.halfmove_clock = halfmove_update(targeted, piece, to_row, to_col),
                    !.fullmove_number =
                        IF self.current_player = WHITE THEN @ + 1 ELSE @,
                    !.current_player = switch_players(self.current_player)],
             result |-> TRUE]

\* make_move after its legality test: the body every caller runs
make_move_body(self, move) ==
    LET from_row == move.from_pos[1]
        from_col == move.from_pos[2]
        to_row == move.to_pos[1]
        to_col == move.to_pos[2]
        piece == get_piece(self, from_row, from_col)
        relocated ==
            IF move.is_castling THEN handle_castling(self, move)
            ELSE IF move.is_en_passant THEN handle_en_passant(self, move)
            ELSE LET plain == set_piece(set_piece(self, to_row, to_col, piece),
                                        from_row, from_col, None)
                 IN IF move.promotion # NoPromotion
                    THEN set_piece(plain, to_row, to_col,
                                   Piece(move.promotion, piece.color))
                    ELSE plain
        marked ==
            IF get_piece(relocated, to_row, to_col) # None
            THEN [relocated EXCEPT !.board[to_row][to_col].has_moved = TRUE]
            ELSE relocated
        targeted == update_en_passant_target(marked, move, piece)
    IN IF piece = None
       THEN [self |-> self, result |-> FALSE]
       ELSE [self |->
                [targeted EXCEPT
                    !.move_history = Append(@, move),
                    !.halfmove_clock = halfmove_update(targeted, piece, to_row, to_col),
                    !.fullmove_number =
                        IF self.current_player = BLACK THEN @ + 1 ELSE @,
                    !.current_player = switch_players(self.current_player)],
             result |-> TRUE]

----------------------------------------------------------------------------
(* Legal moves                                                             *)

\* copy.deepcopy: records are values, a copy shares nothing with its original
deepcopy(b) == b

\* is_legal_move changed to try the move on the board itself, not on a copy
is_legal_move_in_place(self, move) ==
    [result |-> ~is_in_check(make_move_body(self, move).self, self.current_player),
     self |-> make_move_body(self, move).self]

\* is_legal_move changed to pass every move
is_legal_move_always(self, move) ==
    [result |-> TRUE, self |-> self]

is_legal_move(self, move) ==
    LET temp_board == deepcopy(self)
    IN [result |-> ~is_in_check(make_move_body(temp_board, move).self,
                                self.current_player),
        self |-> self]

\* `if self.is_legal_move(move): legal_moves.append(move)`, for the outcome
\* `legal` of the is_legal_move call
append_if_legal(legal, move) ==
    [result |-> IF legal.result THEN <<move>> ELSE <<>>, self |-> legal.self]

\* the inner loop of generate_legal_moves over one piece's moves, from the
\* lo-th to the hi-th: the board is handed from each is_legal_move call to the
\* next, the moves found legal are collected in order
RECURSIVE LegalOf(_, _, _, _)
LegalOf(self, piece_moves, lo, hi) ==
    IF lo > hi
    THEN [result |-> <<>>, self |-> self]
    ELSE IF lo = hi
    THEN append_if_legal(is_legal_move(self, piece_moves[lo]), piece_moves[lo])
    ELSE LET mid == (lo + hi) \div 2
             first == LegalOf(self, piece_moves, lo, mid)
             rest == LegalOf(first.self, piece_moves, mid + 1, hi)
         IN [result |-> first.result \o rest.result, self |-> rest.self]

LegalOfPiece(self, piece_moves) == LegalOf(self, piece_moves, 1, Len(piece_moves))

\* the outer loop over the pieces listed when the call began
RECURSIVE LegalLoop(_, _, _, _, _)
LegalLoop(self, listed, pieces, lo, hi) ==
    IF lo > hi
    THEN [result |-> <<>>, self |-> self]
    ELSE IF lo = hi
    THEN LegalOfPiece(self,
                      generate_piece_moves(self, pieces[lo][1], pieces[lo][2],
                          listed.board[pieces[lo][1]][pieces[lo][2]]))
    ELSE LET mid == (lo + hi) \div 2
             first == LegalLoop(self, listed, pieces, lo, mid)
             rest == LegalLoop(first.self, listed, pieces, mid + 1, hi)
         IN [result |-> first.result \o rest.result, self |-> rest.self]

generate_legal_moves(self, color) ==
    LET pieces == get_all_pieces(self, color)
    IN LegalLoop(self, self, pieces, 1, Len(pieces))

\* make_move_checked changed to apply whatever it is given
make_move_unchecked(legal_moves, move) ==
    make_move_body(legal_moves.self, move)

\* make_move once its legal_moves are generated: `if move not in legal_moves`
make_move_checked(legal_moves, move) ==
    IF ~MoveIn(move, legal_moves.result)
    THEN [self |-> legal_moves.self, result |-> FALSE]
    ELSE make_move_body(legal_moves.self, move)

make_move(self, move, check_legality) ==
    IF check_legality
    THEN make_move_checked(generate_legal_moves(self, self.current_player), move)
    ELSE make_move_body(self, move)

----------------------------------------------------------------------------
(* Terminal classification                                                 *)

\* `len(self.generate_legal_moves(color)) == 0`
none_legal(legal_moves) ==
    [result |-> Len(legal_moves.result) = 0, self |-> legal_moves.self]

\* `and` evaluates generate_legal_moves only when its left operand allows it
is_checkmate(self, color) ==
    IF is_in_check(self, color)
    THEN none_legal(generate_legal_moves(self, color))
    ELSE [result |-> FALSE, self |-> self]

is_stalemate(self, color) ==
    IF ~is_in_check(self, color)
    THEN none_legal(generate_legal_moves(self, color))
    ELSE [result |-> FALSE, self |-> self]

NoResult == "None"
WhiteWins == "Checkmate! White wins!"
BlackWins == "Checkmate! Black wins!"
Stalemate == "Stalemate! It's a draw!"
FiftyMoveDraw == "Draw by 50-move rule!"

FiftyMoveLimit == 100

\* game_over_stalemate changed to look at the halfmove clock first
game_over_stalemate_clock_first(stalemate) ==
    IF stalemate.self.halfmove_clock >= FiftyMoveLimit
    THEN [result |-> <<TRUE, FiftyMoveDraw>>, self |-> stalemate.self]
    ELSE IF stalemate.result
    THEN [result |-> <<TRUE, Stalemate>>, self |-> stalemate.self]
    ELSE [result |-> <<FALSE, NoResult>>, self |-> stalemate.self]

\* is_game_over from the outcome of its is_stalemate call on
game_over_stalemate(stalemate) ==
    IF stalemate.result
    THEN [result |-> <<TRUE, Stalemate>>, self |-> stalemate.self]
    ELSE IF stalemate.self.halfmove_clock >= FiftyMoveLimit
    THEN [result |-> <<TRUE, FiftyMoveDraw>>, self |-> stalemate.self]
    ELSE [result |-> <<FALSE, NoResult>>, self |-> stalemate.self]

\* game_over_checkmate changed to name the side to move as the winner
game_over_checkmate_swapped(checkmate) ==
    IF checkmate.result
    THEN [result |-> <<TRUE, IF checkmate.self.current_player = WHITE
                             THEN WhiteWins ELSE BlackWins>>,
          self |-> checkmate.self]
    ELSE game_over_stalemate(is_stalemate(checkmate.self,
                                          checkmate.self.current_player))

\* is_game_over from the outcome of its is_checkmate call on
game_over_checkmate(checkmate) ==
    IF checkmate.result
    THEN [result |-> <<TRUE, IF checkmate.self.current_player = BLACK
                             THEN WhiteWins ELSE BlackWins>>,
          self |-> checkmate.self]
    ELSE game_over_stalemate(is_stalemate(checkmate.self,
                                          checkmate.self.current_player))

\* result is the pair (game_over, result) that is_game_over returns
is_game_over(self) ==
    game_over_checkmate(is_checkmate(self, self.current_player))

----------------------------------------------------------------------------
(* Move input (scripts/chess_utils.py).  A string is a sequence of         *)
(* one-character strings.                                                  *)

Files == <<"a", "b", "c", "d", "e", "f", "g", "h">>
Digits == <<"0", "1", "2", "3", "4", "5", "6", "7", "8", "9">>

\* ord(ch) - ord('a') for the letters a..h; any other character of the inputs
\* used here lies outside 0..7, which is all the bounds test reads
FileIndex(ch) ==
    IF \E i \in 1..8 : Files[i] = ch
    THEN (CHOOSE i \in 1..8 : Files[i] = ch) - 1
    ELSE -1

IsDigit(ch) == \E i \in 1..10 : Digits[i] = ch

DigitValue(ch) == (CHOOSE i \in 1..10 : Digits[i] = ch) - 1

promotion_map(ch) ==
    CASE ch = "q" -> QUEEN
      [] ch = "r" -> ROOK
      [] ch = "b" -> BISHOP
      [] ch = "n" -> KNIGHT
      [] OTHER -> NoPromotion

NoParse == <<>>

\* str.lower on the characters the inputs are made of
lower(ch) ==
    CASE ch = "A" -> "a" [] ch = "B" -> "b" [] ch = "C" -> "c" [] ch = "D" -> "d"
      [] ch = "E" -> "e" [] ch = "F" -> "f" [] ch = "G" -> "g" [] ch = "H" -> "h"
      [] ch = "N" -> "n" [] ch = "Q" -> "q" [] ch = "R" -> "r"
      [] OTHER -> ch

\* `move_str.strip().lower()`: the blanks at both ends go, the rest is lowered
strip_lower(raw) ==
    LET inked == {i \in 1..Len(raw) : raw[i] # " "}
        first == CHOOSE i \in inked : \A j \in inked : i <= j
        final == CHOOSE i \in inked : \A j \in inked : j <= i
    IN IF inked = {} THEN <<>>
       ELSE [i \in 1..(final - first + 1) |-> lower(raw[first + i - 1])] \o <<>>

\* parse_move_input once its argument is stripped and lowered
parse_stripped(move_str) ==
    IF Len(move_str) < 4 \/ Len(move_str) > 5
    THEN NoParse
    ELSE IF ~IsDigit(move_str[2]) \/ ~IsDigit(move_str[4])
    THEN NoParse
    ELSE LET from_col == FileIndex(move_str[1])
             from_row == 8 - DigitValue(move_str[2])
             to_col == FileIndex(move_str[3])
             to_row == 8 - DigitValue(move_str[4])
             promotion == IF Len(move_str) = 5
                          THEN promotion_map(move_str[5])
                          ELSE NoPromotion
         IN IF ~(is_valid_position(from_row, from_col)
                 /\ is_valid_position(to_row, to_col))
            THEN NoParse
            ELSE IF Len(move_str) = 5 /\ promotion = NoPromotion
            THEN NoParse
            ELSE <<<<from_row, from_col>>, <<to_row, to_col>>, promotion>>

\* <<from_pos, to_pos, promotion>>, or NoParse for Python's None
parse_move_input(move_str) == parse_stripped(strip_lower(move_str))

NoMove == Move(<<>>, <<>>, NoPromotion, FALSE, FALSE)

\* first_match changed to compare the origin and the destination only
first_match_squares(legal_moves, parsed) ==
    LET found == SelectSeq(legal_moves.result,
                           LAMBDA move : /\ move.from_pos = parsed[1]
                                         /\ move.to_pos = parsed[2])
    IN [result |-> IF Len(found) = 0 THEN NoMove ELSE found[1],
        self |-> legal_moves.self]

\* the loop of find_move_from_input over the legal moves: the first with the
\* parsed origin, destination and promotion
first_match(legal_moves, parsed) ==
    LET found == SelectSeq(legal_moves.result,
                           LAMBDA move : /\ move.from_pos = parsed[1]
                                         /\ move.to_pos = parsed[2]
                                         /\ move.promotion = parsed[3])
    IN [result |-> IF Len(found) = 0 THEN NoMove ELSE found[1],
        self |-> legal_moves.self]

find_move_from_input(b, move_input) ==
    LET parsed == parse_move_input(move_input)
    IN IF parsed = NoParse
       THEN [result |-> NoMove, self |-> b]
       ELSE first_match(generate_legal_moves(b, b.current_player), parsed)

----------------------------------------------------------------------------
(* ChessBot (scripts/chess_bot.py): evaluation and move ordering           *)

max(a, b) == IF a >= b THEN a ELSE b
min(a, b) == IF a <= b THEN a ELSE b

\* float('inf'): above every score the search can produce
inf == 1000000

ChessBot(color, difficulty) ==
    [color |-> color,
     difficulty |-> max(1, min(difficulty, 6)),
     nodes_searched |-> 0]

piece_values(piece_type) ==
    CASE piece_type = PAWN -> 100
      [] piece_type = KNIGHT -> 320
      [] piece_type = BISHOP -> 330
      [] piece_type = ROOK -> 500
      [] piece_type = QUEEN -> 900
      [] piece_type = KING -> 20000

pawn_table ==
    << <<0, 0, 0, 0, 0, 0, 0, 0>>,
       <<50, 50, 50, 50, 50, 50, 50, 50>>,
       <<10, 10, 20, 30, 30, 20, 10, 10>>,
       <<5, 5, 10, 25, 25, 10, 5, 5>>,
       <<0, 0, 0, 20, 20, 0, 0, 0>>,
       <<5, -5, -10, 0, 0, -10, -5, 5>>,
       <<5, 10, 10, -20, -20, 10, 10, 5>>,
       <<0, 0, 0, 0, 0, 0, 0, 0>> >>

knight_table ==
    << <<-50, -40, -30, -30, -30, -30, -40, -50>>,
       <<-40, -20, 0, 0, 0, 0, -20, -40>>,
       <<-30, 0, 10, 15, 15, 10, 0, -30>>,
       <<-30, 5, 15, 20, 20, 15, 5, -30>>,
       <<-30, 0, 15, 20, 20, 15, 0, -30>>,
       <<-30, 5, 10, 15, 15, 10, 5, -30>>,
       <<-40, -20, 0, 5, 5, 0, -20, -40>>,
       <<-50, -40, -30, -30, -30, -30, -40, -50>> >>

bishop_table ==
    << <<-20, -10, -10, -10, -10, -10, -10, -20>>,
       <<-10, 0, 0, 0, 0, 0, 0, -10>>,
       <<-10, 0, 5, 10, 10, 5, 0, -10>>,
       <<-10, 5, 5, 10, 10, 5, 5, -10>>,
       <<-10, 0, 10, 10, 10, 10, 0, -10>>,
       <<-10, 10, 10, 10, 10, 10, 10, -10>>,
       <<-10, 5, 0, 0, 0, 0, 5, -10>>,
       <<-20, -10, -10, -10, -10, -10, -10, -20>> >>

rook_table ==
    << <<0, 0, 0, 0, 0, 0, 0, 0>>,
       <<5, 10, 10, 10, 10, 10, 10, 5>>,
       <<-5, 0, 0, 0, 0, 0, 0, -5>>,
       <<-5, 0, 0, 0, 0, 0, 0, -5>>,
       <<-5, 0, 0, 0, 0, 0, 0, -5>>,
       <<-5, 0, 0, 0, 0, 0, 0, -5>>,
       <<-5, 0, 0, 0, 0, 0, 0, -5>>,
       <<0, 0, 0, 5, 5, 0, 0, 0>> >>

queen_table ==
    << <<-20, -10, -10, -5, -5, -10, -10, -20>>,
       <<-10, 0, 0, 0, 0, 0, 0, -10>>,
       <<-10, 0, 5, 5, 5, 5, 0, -10>>,
       <<-5, 0, 5, 5, 5, 5, 0, -5>>,
       <<0, 0, 5, 5, 5, 5, 0, -5>>,
       <<-10, 5, 5, 5, 5, 5, 0, -10>>,
       <<-10, 0, 5, 0, 0, 0, 0, -10>>,
       <<-20, -10, -10, -5, -5, -10, -10, -20>> >>

king_middle_game_table ==
    << <<-30, -40, -40, -50, -50, -40, -40, -30>>,
       <<-30, -40, -40, -50, -50, -40, -40, -30>>,
       <<-30, -40, -40, -50, -50, -40, -40, -30>>,
       <<-30, -40, -40, -50, -50, -40, -40, -30>>,
       <<-20, -30, -30, -40, -40, -30, -30, -20>>,
       <<-10, -20, -20, -20, -20, -20, -20, -10>>,
       <<20, 20, 0, 0, 0, 0, 20, 20>>,
       <<20, 30, 10, 0, 0, 10, 30, 20>> >>

get_piece_value(piece, row, col) ==
    LET table_row == IF piece.color = WHITE THEN row ELSE 7 - row
        positional_bonus ==
            CASE piece.type = PAWN -> pawn_table[table_row + 1][col + 1]
              [] piece.type = KNIGHT -> knight_table[table_row + 1][col + 1]
              [] piece.type = BISHOP -> bishop_table[table_row + 1][col + 1]
              [] piece.type = ROOK -> rook_table[table_row + 1][col + 1]
              [] piece.type = QUEEN -> queen_table[table_row + 1][col + 1]
              [] piece.type = KING -> king_middle_game_table[table_row + 1][col + 1]
              [] OTHER -> 0
    IN piece_values(piece.type) + positional_bonus

\* the material and positional score of the squares lo..hi of AllSquares: the
\* two nested loops of evaluate_position
RECURSIVE material(_, _, _, _)
material(self, board_, lo, hi) ==
    IF lo = hi
    THEN LET row == AllSquares[lo][1]
             col == AllSquares[lo][2]
             piece == get_piece(board_, row, col)
         IN IF piece = None THEN 0
            ELSE IF piece.color = self.color
            THEN get_piece_value(piece, row, col)
            ELSE 0 - get_piece_value(piece, row, col)
    ELSE material(self, board_, lo, (lo + hi) \div 2)
         + material(self, board_, (lo + hi) \div 2 + 1, hi)

\* evaluate_position from `board.current_player = original_player` on
evaluate_restored(self, score, restored, our_moves, opponent_moves) ==
    [result |-> score + (our_moves - opponent_moves) * 10
                - (IF is_in_check(restored, self.color) THEN 50 ELSE 0)
                + (IF is_in_check(restored, Opponent(self.color)) THEN 50 ELSE 0),
     board |-> restored]

\* evaluate_position once the opponent's moves are generated
evaluate_opponent(self, score, original_player, our_moves, opponent_moves) ==
    evaluate_restored(self, score,
                      [opponent_moves.self EXCEPT !.current_player = original_player],
                      our_moves, Len(opponent_moves.result))

\* evaluate_position once the bot's own moves are generated: the board is
\* handed to the opponent for the second count
evaluate_ours(self, score, our_moves) ==
    evaluate_opponent(self, score, our_moves.self.current_player,
                      Len(our_moves.result),
                      generate_legal_moves(
                          [our_moves.self EXCEPT !.current_player = Opponent(self.color)],
                          Opponent(self.color)))

\* result is the score, board the position after the call
evaluate_position(self, board_) ==
    evaluate_ours(self, material(self, board_, 1, 64),
                  generate_legal_moves(board_, self.color))

copy_board(board_) == deepcopy(board_)

move_priority(self, board_, move) ==
    LET target_piece == get_piece(board_, move.to_pos[1], move.to_pos[2])
        attacker == get_piece(board_, move.from_pos[1], move.from_pos[2])
    IN (IF target_piece # None
        THEN piece_values(target_piece.type)
             + (IF attacker # None
                THEN piece_values(target_piece.type) - piece_values(attacker.type)
                ELSE 0)
        ELSE 0)
       + (IF move.promotion # NoPromotion THEN piece_values(move.promotion) ELSE 0)
       + (IF is_in_check(make_move(copy_board(board_), move, FALSE).self,
                         Opponent(self.color))
          THEN 100 ELSE 0)

\* sorted(moves, key=..., reverse=True) for the keys at hand: descending, moves
\* with equal keys in the order they came in
sorted_descending(moves, keys) ==
    LET n == Len(moves)
        rank(i) == Cardinality({j \in 1..n : keys[j] > keys[i]})
                   + Cardinality({j \in 1..(i - 1) : keys[j] = keys[i]}) + 1
    IN [k \in 1..n |-> moves[CHOOSE i \in 1..n : rank(i) = k]] \o <<>>

order_moves(self, board_, moves) ==
    sorted_descending(moves,
        [i \in 1..Len(moves) |-> move_priority(self, board_, moves[i])] \o <<>>)

----------------------------------------------------------------------------
(* ChessBot: the search.  get_best_move and minimax are run one call of     *)
(* minimax at a time; `search` holds a frame for every loop over moves that *)
(* is under way, with the locals of that loop.                              *)

\* the locals of a loop over `moves`: i is the index of the move the loop is
\* at, value is best_score, max_eval or min_eval
Frame(board_, depth, alpha, beta, maximizing, moves, root) ==
    [board |-> board_, depth |-> depth, alpha |-> alpha, beta |-> beta,
     maximizing |-> maximizing, moves |-> moves, i |-> 1,
     value |-> IF maximizing THEN 0 - inf ELSE inf,
     best_move |-> NoMove, root |-> root]

NoFrame == Frame(NewChessBoard, 0, 0, 0, FALSE, <<>>, FALSE)

\* cutoff changed to leave a loop while a margin of the window is still open
cutoff_early(alpha, beta) == beta <= alpha + 50

\* `if beta <= alpha: break`
cutoff(alpha, beta) == beta <= alpha

\* root_update changed to accept a move only above a best_score of 0
root_update_from_zero(frame, score) ==
    [frame EXCEPT
        !.value = IF score > max(frame.value, 0) THEN score ELSE frame.value,
        !.best_move = IF score > max(frame.value, 0) THEN frame.moves[frame.i]
                      ELSE frame.best_move,
        !.alpha = max(frame.alpha, score),
        !.i = IF cutoff(max(frame.alpha, score), frame.beta)
              THEN Len(frame.moves) + 1 ELSE frame.i + 1]

\* root_update changed to let a later move of equal score take the place of
\* the best so far
root_update_last(frame, score) ==
    [frame EXCEPT
        !.value = IF score >= frame.value THEN score ELSE frame.value,
        !.best_move = IF score >= frame.value THEN frame.moves[frame.i]
                      ELSE frame.best_move,
        !.alpha = max(frame.alpha, score),
        !.i = IF cutoff(max(frame.alpha, score), frame.beta)
              THEN Len(frame.moves) + 1 ELSE frame.i + 1]

\* one pass of the loop of get_best_move after minimax returned score
root_update(frame, score) ==
    [frame EXCEPT
        !.value = IF score > frame.value THEN score ELSE frame.value,
        !.best_move = IF score > frame.value THEN frame.moves[frame.i]
                      ELSE frame.best_move,
        !.alpha = max(frame.alpha, score),
        !.i = IF cutoff(max(frame.alpha, score), frame.beta)
              THEN Len(frame.moves) + 1 ELSE frame.i + 1]

\* one pass of a loop of minimax after the recursive call returned eval_score
minimax_update(frame, eval_score) ==
    IF frame.maximizing
    THEN [frame EXCEPT
             !.value = max(frame.value, eval_score),
             !.alpha = max(frame.alpha, eval_score),
             !.i = IF cutoff(max(frame.alpha, eval_score), frame.beta)
                   THEN Len(frame.moves) + 1 ELSE frame.i + 1]
    ELSE [frame EXCEPT
             !.value = min(frame.value, eval_score),
             !.beta = min(frame.beta, eval_score),
             !.i = IF cutoff(frame.alpha, min(frame.beta, eval_score))
                   THEN Len(frame.moves) + 1 ELSE frame.i + 1]

loop_update(frame, score) ==
    IF frame.root THEN root_update(frame, score) ELSE minimax_update(frame, score)

\* terminal_score changed to score every win and every loss alike
terminal_score_flat(self, result, depth) ==
    IF result = WhiteWins \/ result = BlackWins
    THEN IF \/ (self.color = WHITE /\ result = WhiteWins)
            \/ (self.color = BLACK /\ result = BlackWins)
         THEN 10000
         ELSE 0 - 10000
    ELSE 0

\* the score of a node that is_game_over reports as over
terminal_score(self, result, depth) ==
    IF result = WhiteWins \/ result = BlackWins
    THEN IF \/ (self.color = WHITE /\ result = WhiteWins)
            \/ (self.color = BLACK /\ result = BlackWins)
         THEN 10000 + depth
         ELSE 0 - 10000 - depth
    ELSE 0

\* minimax once its legal moves are generated: 0 without moves, else its loop
minimax_moves(self, depth, alpha, beta, maximizing, legal_moves) ==
    IF Len(legal_moves.result) = 0
    THEN [entered |-> FALSE, score |-> 0, frame |-> NoFrame]
    ELSE [entered |-> TRUE, score |-> 0,
          frame |-> Frame(legal_moves.self, depth, alpha, beta, maximizing,
                          order_moves(self, legal_moves.self, legal_moves.result),
                          FALSE)]

\* minimax from the outcome of its is_game_over call on
minimax_over(self, depth, alpha, beta, maximizing, over) ==
    IF over.result[1]
    THEN [entered |-> FALSE, score |-> terminal_score(self, over.result[2], depth),
          frame |-> NoFrame]
    ELSE IF depth = 0
    THEN [entered |-> FALSE, score |-> evaluate_position(self, over.self).result,
          frame |-> NoFrame]
    ELSE minimax_moves(self, depth, alpha, beta, maximizing,
                       generate_legal_moves(over.self, over.self.current_player))

\* minimax up to its loop: the score it returns without looping, or the frame
\* of the loop it enters
minimax(self, board_, depth, alpha, beta, maximizing) ==
    minimax_over(self, depth, alpha, beta, maximizing, is_game_over(board_))

\* get_best_move once the legal moves are generated, up to its loop: the moves
\* it may return at once (none, or any of them at difficulty 1), or the frame
\* of its loop
best_move_start(self, legal_moves) ==
    IF Len(legal_moves.result) = 0 \/ self.difficulty = 1
    THEN [returned |-> TRUE, choices |-> legal_moves.result, frames |-> <<>>,
          board |-> legal_moves.self,
          self |-> [self EXCEPT !.nodes_searched = 0]]
    ELSE [returned |-> FALSE, choices |-> <<>>,
          frames |-> <<Frame(legal_moves.self, self.difficulty, 0 - inf, inf, TRUE,
                             order_moves(self, legal_moves.self, legal_moves.result),
                             TRUE)>>,
          board |-> legal_moves.self,
          self |-> [self EXCEPT !.nodes_searched = 0]]

get_best_move(self, board_) ==
    best_move_start(self, generate_legal_moves(board_, self.color))

----------------------------------------------------------------------------
(* The driver (scripts/chess_cli.py, human against human) and direct calls *)
(* of make_move                                                            *)

\* the games the players' typed input follows after the free opening plies
FoolsMate ==
    << <<"f","2","f","3">>, <<"e","7","e","5">>, <<"g","2","g","4">>,
       <<"d","8","h","4">> >>

EnPassantGame ==
    << <<"e","2","e","4">>, <<"a","7","a","6">>, <<"e","4","e","5">>,
       <<"d","7","d","5">>, <<"e","5","d","6">>, <<"c","7","d","6">> >>

EnPassantMissed ==
    << <<"e","2","e","4">>, <<"a","7","a","6">>, <<"e","4","e","5">>,
       <<"d","7","d","5">>, <<"h","2","h","3">>, <<"h","7","h","6">>,
       <<"g","1","f","3">> >>

CastleShort ==
    << <<"e","2","e","4">>, <<"e","7","e","5">>, <<"g","1","f","3">>,
       <<"g","8","f","6">>, <<"f","1","c","4">>, <<"f","8","c","5">>,
       <<"e","1","g","1">>, <<"e","8","g","8">> >>

CastleLong ==
    << <<"d","2","d","4">>, <<"d","7","d","5">>, <<"b","1","c","3">>,
       <<"b","8","c","6">>, <<"c","1","f","4">>, <<"c","8","f","5">>,
       <<"d","1","d","2">>, <<"d","8","d","7">>, <<"e","1","c","1">>,
       <<"e","8","c","8">> >>

PromotionGame ==
    << <<"a","2","a","4">>, <<"b","7","b","5">>, <<"a","4","b","5">>,
       <<"a","7","a","6">>, <<"b","5","a","6">>, <<"c","8","b","7">>,
       <<"a","6","b","7">>, <<"b","8","c","6">>, <<"b","7","a","8","n">>,
       <<"d","8","a","8">> >>

PinGame ==
    << <<"e","2","e","4">>, <<"h","7","h","6">>, <<"f","1","b","5">>,
       <<"h","6","h","5">>, <<"b","5","d","7">>, <<"e","8","d","7">> >>

\* games that leave White a king and a rook with nothing between them and no
\* castling move
CastlingGames ==
    {
      \* the square the king would pass over is attacked
      << <<"e","2","e","4">>, <<"b","7","b","6">>, <<"f","1","c","4">>, <<"c","8","a","6">>,
         <<"g","1","f","3">>, <<"a","6","c","4">> >>,
      \* the square the king would land on is attacked
      << <<"f","2","f","4">>, <<"e","7","e","5">>, <<"g","1","f","3">>, <<"f","8","c","5">>,
         <<"g","2","g","3">>, <<"a","7","a","6">>, <<"f","1","g","2">> >>,
      \* the king is in check
      << <<"e","2","e","4">>, <<"e","7","e","6">>, <<"g","1","f","3">>, <<"a","7","a","6">>,
         <<"f","1","c","4">>, <<"a","6","a","5">>, <<"d","2","d","4">>, <<"f","8","b","4">> >>,
      \* the rook has left its corner and come back
      << <<"g","1","f","3">>, <<"a","7","a","6">>, <<"g","2","g","3">>, <<"a","6","a","5">>,
         <<"f","1","g","2">>, <<"a","5","a","4">>, <<"h","1","f","1">>, <<"a","4","a","3">>,
         <<"f","1","h","1">>, <<"a","3","b","2">> >>,
      \* both kings have left their squares and come back
      << <<"e","2","e","4">>, <<"e","7","e","5">>, <<"e","1","e","2">>, <<"e","8","e","7">>,
         <<"e","2","e","1">>, <<"e","7","e","8">>, <<"g","1","f","3">>, <<"g","8","f","6">>,
         <<"f","1","c","4">>, <<"f","8","c","5">> >> }

Games ==
    {FoolsMate, EnPassantGame, EnPassantMissed, CastleShort, CastleLong,
     PromotionGame, PinGame} \cup CastlingGames

\* Move objects a caller builds itself and hands to make_move, flags unset
Sq(file, rank) == <<8 - rank, FileIndex(file)>>

DirectMoves ==
    {PlainMove(Sq("e", 1), Sq("g", 1)),
     PlainMove(Sq("e", 5), Sq("d", 6)),
     PlainMove(Sq("e", 2), Sq("e", 5)),
     PlainMove(Sq("e", 4), Sq("e", 5)),
     PlainMove(Sq("a", 1), Sq("a", 5)),
     Move(Sq("e", 8), Sq("c", 8), NoPromotion, TRUE, FALSE),
     Move(Sq("e", 7), Sq("e", 8), QUEEN, FALSE, FALSE)}

\* plies during which any text naming a legal move may be typed
FreePly == 1
\* plies after which the game is left alone
MaxPly == 10

Played(b) == Len(b.move_history)

\* the game g has been followed so far and has a next line of input
Follows(b, g) ==
    /\ Len(g) > Played(b)
    /\ \A k \in 1..Played(b) :
          LET parsed == parse_move_input(g[k])
          IN /\ b.move_history[k].from_pos = parsed[1]
             /\ b.move_history[k].to_pos = parsed[2]
             /\ b.move_history[k].promotion = parsed[3]

\* Move.__str__ without the promotion suffix, as the text a player types
MoveText(move) ==
    <<Files[move.from_pos[2] + 1], Digits[8 - move.from_pos[1] + 1],
      Files[move.to_pos[2] + 1], Digits[8 - move.to_pos[1] + 1]>>
    \o (IF move.promotion = NoPromotion THEN <<>> ELSE <<move.promotion>>)

Texts(moves) == {MoveText(moves[i]) : i \in 1..Len(moves)}

TypedInputs(b) ==
    {g[Played(b) + 1] : g \in {h \in Games : Follows(b, h)}}
    \cup (IF Played(b) < FreePly
          THEN Texts(generate_legal_moves(b, b.current_player).result)
          ELSE {})

\* what the driver last did: the call, the move it concerned, what the call
\* returned, and who supplied the move
Last(op, move, result, by) ==
    [op |-> op, move |-> move, result |-> result, by |-> by]

NoBot == [color |-> "none", difficulty |-> 0, nodes_searched |-> 0]
NoSearch == <<>>

\* a game of two humans (game mode 4) on a new board
Init ==
    /\ board = NewChessBoard
    /\ last = Last("new", NoMove, TRUE, "none")
    /\ bot = NoBot
    /\ search = NoSearch

\* one turn of play_game with a human to move: is_game_over, then the typed
\* move is looked up and, when found, made
HumanTurn(move_input) ==
    /\ search = NoSearch
    /\ bot = NoBot \/ board.current_player # bot.color
    /\ UNCHANGED <<bot, search>>
    /\ \E over \in {is_game_over(board)} :
        /\ ~over.result[1]
        /\ \E found \in {find_move_from_input(over.self, move_input)} :
              IF found.result = NoMove
              THEN /\ board' = found.self
                   /\ last' = Last("find_move_from_input", NoMove, FALSE, "human")
              ELSE \E made \in {make_move(found.self, found.result, TRUE)} :
                      /\ board' = made.self
                      /\ last' = Last("make_move", found.result, made.result,
                                      "human")

\* board.make_move(move), legality enforced, with a Move the caller built
MakeMove(move) ==
    /\ UNCHANGED <<bot, search>>
    /\ \E made \in {make_move(board, move, TRUE)} :
          /\ board' = made.self
          /\ last' = Last("make_move", move, made.result, "caller")

Next ==
    /\ Played(board) < MaxPly
    /\ \/ \E move_input \in TypedInputs(board) : HumanTurn(move_input)
       \/ \E move \in DirectMoves : MakeMove(move)

Spec == Init /\ [][Next]_vars

----------------------------------------------------------------------------
(* A game of a human against the bot (game modes 1 and 2)                  *)

\* the inputs the human may type, turn by turn, whatever the bot replies
HumanAsWhite ==
    << {<<"f","2","f","3">>, <<"e","2","e","4">>, <<"g","1","f","3">>},
       {<<"g","2","g","4">>, <<"d","1","h","5">>} >>
HumanAsBlack ==
    << {<<"e","7","e","5">>, <<"d","7","d","5">>},
       {<<"d","8","h","4">>} >>

MaxDifficulty == 2
\* plies after which a game against the bot is left alone
BotPly == 4

BotInputs(b) ==
    LET script == IF bot.color = BLACK THEN HumanAsWhite ELSE HumanAsBlack
        turn == Played(b) \div 2 + 1
    IN IF turn <= Len(script) THEN script[turn] ELSE {}

InitBot ==
    /\ board = NewChessBoard
    /\ last = Last("new", NoMove, TRUE, "none")
    /\ bot \in {ChessBot(color, difficulty) :
                   color \in Colors, difficulty \in 1..MaxDifficulty}
    /\ search = NoSearch

Top == search[Len(search)]

\* play_game with the bot to move: is_game_over, then get_best_move; a move
\* returned at once is made, otherwise the loop of get_best_move begins
BotTurn ==
    /\ search = NoSearch
    /\ bot # NoBot
    /\ board.current_player = bot.color
    /\ \E over \in {is_game_over(board)} :
        /\ ~over.result[1]
        /\ \E called \in {get_best_move(bot, over.self)} :
              /\ bot' = called.self
              /\ IF ~called.returned
                 THEN /\ board' = called.board
                      /\ search' = called.frames
                      /\ UNCHANGED last
                 ELSE IF Len(called.choices) = 0
                 THEN /\ board' = called.board
                      /\ search' = NoSearch
                      /\ last' = Last("get_best_move", NoMove, FALSE, "bot")
                 ELSE \E draw \in 1..Len(called.choices) :
                      \E made \in {make_move(called.board, called.choices[draw], TRUE)} :
                         /\ board' = made.self
                         /\ search' = NoSearch
                         /\ last' = Last("make_move", called.choices[draw],
                                         made.result, "bot")

\* the loop on top of the stack makes its next move on a copy and calls minimax
Descend ==
    /\ search # NoSearch
    /\ Top.i <= Len(Top.moves)
    /\ \E called \in {minimax(bot,
                             make_move(copy_board(Top.board), Top.moves[Top.i],
                                       FALSE).self,
                             Top.depth - 1, Top.alpha, Top.beta, ~Top.maximizing)} :
          search' = IF called.entered
                    THEN Append(search, called.frame)
                    ELSE [search EXCEPT ![Len(search)] = loop_update(Top, called.score)]
    /\ bot' = [bot EXCEPT !.nodes_searched = @ + 1]
    /\ UNCHANGED <<board, last>>

\* a loop of minimax has ended: its value goes to the loop that called it
Return ==
    /\ Len(search) > 1
    /\ Top.i > Len(Top.moves)
    /\ search' = [SubSeq(search, 1, Len(search) - 1) EXCEPT
                     ![Len(search) - 1] = loop_update(search[Len(search) - 1],
                                                      Top.value)]
    /\ UNCHANGED <<board, last, bot>>

\* the loop of get_best_move has ended: play_game makes the move it returns
BotMove ==
    /\ Len(search) = 1
    /\ Top.i > Len(Top.moves)
    /\ search' = NoSearch
    /\ UNCHANGED bot
    /\ IF Top.best_move = NoMove
       THEN /\ UNCHANGED board
            /\ last' = Last("get_best_move", NoMove, FALSE, "bot")
       ELSE \E made \in {make_move(board, Top.best_move, TRUE)} :
               /\ board' = made.self
               /\ last' = Last("make_move", Top.best_move, made.result, "bot")

\* get_best_move asked for a move on the final position of a game, outside
\* play_game, with the bot's side to move
GetBestMove ==
    /\ search = NoSearch
    /\ bot # NoBot
    /\ board.current_player = bot.color
    /\ is_game_over(board).result[1]
    /\ \E called \in {get_best_move(bot, board)} :
          /\ called.returned
          /\ bot' = called.self
          /\ board' = called.board
          /\ UNCHANGED search
          /\ \E move \in IF Len(called.choices) = 0 THEN {NoMove}
                         ELSE {called.choices[i] : i \in 1..Len(called.choices)} :
                last' = Last("get_best_move", move, move # NoMove, "bot")

NextBot ==
    \/ /\ Played(board) < BotPly
       /\ \E move_input \in BotInputs(board) : HumanTurn(move_input)
    \/ /\ Played(board) < BotPly
       /\ BotTurn
    \/ Descend
    \/ Return
    \/ BotMove
    \/ GetBestMove

SpecBot == InitBot /\ [][NextBot]_vars

----------------------------------------------------------------------------
(* A game of two humans who only move their knights out and back           *)

Shuffle ==
    << <<"g","1","f","3">>, <<"g","8","f","6">>, <<"f","3","g","1">>,
       <<"f","6","g","8">> >>

\* plies after which the knights are left alone
FiftyPly == 101

NextFifty ==
    /\ Played(board) < FiftyPly
    /\ HumanTurn(Shuffle[(Played(board) % 4) + 1])

SpecFifty == Init /\ [][NextFifty]_vars

----------------------------------------------------------------------------
(* A game of two humans played to the end: the scripted games, and one in   *)
(* which White takes every black piece and leaves the black king without a *)
(* move                                                                     *)

StalemateGame ==
    << <<"c","2","c","4">>, <<"b","7","b","5">>, <<"c","4","b","5">>, <<"c","7","c","6">>,
       <<"b","5","c","6">>, <<"c","8","b","7">>, <<"c","6","b","7">>, <<"d","8","c","8">>,
       <<"b","7","c","8","b">>, <<"b","8","a","6">>, <<"c","8","a","6">>, <<"a","8","c","8">>,
       <<"a","6","c","8">>, <<"a","7","a","6">>, <<"c","8","a","6">>, <<"h","7","h","5">>,
       <<"d","2","d","4">>, <<"h","8","h","6">>, <<"c","1","h","6">>, <<"e","7","e","5">>,
       <<"d","4","e","5">>, <<"f","7","f","6">>, <<"e","5","f","6">>, <<"d","7","d","6">>,
       <<"f","6","g","7">>, <<"d","6","d","5">>, <<"g","7","f","8","b">>, <<"d","5","d","4">>,
       <<"d","1","d","4">>, <<"g","8","f","6">>, <<"d","4","f","6">>, <<"h","5","h","4">>,
       <<"f","6","h","4">>, <<"e","8","f","7">>, <<"b","1","c","3">>, <<"f","7","g","8">>,
       <<"h","4","f","6">>, <<"g","8","h","7">>, <<"f","8","g","7">>, <<"h","7","g","8">>,
       <<"f","6","g","6">> >>

LongInputs(b) ==
    TypedInputs(b)
    \cup (IF Follows(b, StalemateGame) THEN {StalemateGame[Played(b) + 1]} ELSE {})

NextLong == \E move_input \in LongInputs(board) : HumanTurn(move_input)

SpecLong == Init /\ [][NextLong]_vars

----------------------------------------------------------------------------
(* Properties of the rules engine, checked under Spec                      *)

LastMove(b) == b.move_history[Len(b.move_history)]

\* C1: every move generate_legal_moves returns for either side, applied to a
\* copy with legality enforcement off, leaves that side's king out of check
LegalityClosure ==
    \A s \in Colors :
        LET legal_moves == generate_legal_moves(board, s).result
        IN \A i \in 1..Len(legal_moves) :
              ~is_in_check(make_move(deepcopy(board), legal_moves[i], FALSE).self, s)

\* C2: make_move with legality enforcement, given a move that is not in the
\* legal moves of the side to move, returns False and leaves the whole
\* position as it was
IllegalMoveRejected ==
    [][(/\ last'.op = "make_move"
        /\ ~MoveIn(last'.move,
                   generate_legal_moves(board, board.current_player).result))
       => (~last'.result /\ board' = board)]_vars

\* an illegal move has been handed to make_move in the course of a game
IllegalMoveTried ==
    /\ last.op = "make_move" /\ last.by = "caller" /\ ~last.result
    /\ Played(board) > 0

\* the moves generate_piece_moves lists for every piece on the board
PseudoMoves(b) ==
    UNION {{generate_piece_moves(b, row, col, b.board[row][col])[i] :
              i \in 1..Len(generate_piece_moves(b, row, col, b.board[row][col]))} :
           row \in 0..7, col \in 0..7}

\* C3: a make_move call that returns True hands the turn to the other side,
\* one that returns False leaves it, with legality enforcement on (the call
\* the driver made) and off (every generated move and every caller-built
\* move, applied to the position at hand)
TurnAlternation ==
    [][/\ last'.op = "make_move" =>
             board'.current_player =
                 IF last'.result THEN Opponent(board.current_player)
                 ELSE board.current_player
       /\ \A move \in PseudoMoves(board) \cup DirectMoves :
             LET made == make_move(board, move, FALSE)
             IN made.self.current_player =
                    IF made.result THEN Opponent(board.current_player)
                    ELSE board.current_player]_vars

\* a castling move has been made and the turn has passed to the other side
CastledAndPassed ==
    /\ last.op = "make_move" /\ last.result /\ last.move.is_castling
    /\ get_piece(board, last.move.to_pos[1], last.move.to_pos[2]).type = KING
    /\ board.current_player
         # get_piece(board, last.move.to_pos[1], last.move.to_pos[2]).color

\* C4: no position shows a king that has just gone two files along its rank
\* with the rook of that side still on its corner
CastlingAtomic ==
    Played(board) > 0 =>
        LET move == LastMove(board)
            row == move.to_pos[1]
        IN (/\ get_piece(board, row, move.to_pos[2]).type = KING
            /\ move.from_pos[1] = row
            /\ Abs(move.to_pos[2] - move.from_pos[2]) = 2)
           => IF move.to_pos[2] = 6
              THEN /\ get_piece(board, row, 5).type = ROOK
                   /\ get_piece(board, row, 7) = None
              ELSE /\ get_piece(board, row, 3).type = ROOK
                   /\ get_piece(board, row, 0) = None

\* the move that produced the position was a pawn's advance of two ranks
DoubleAdvance(b) ==
    /\ Played(b) > 0
    /\ get_piece(b, LastMove(b).to_pos[1], LastMove(b).to_pos[2]).type = PAWN
    /\ Abs(LastMove(b).to_pos[1] - LastMove(b).from_pos[1]) = 2

\* the square that advance passed over
Skipped(b) ==
    <<(LastMove(b).from_pos[1] + LastMove(b).to_pos[1]) \div 2,
      LastMove(b).to_pos[2]>>

\* C5: the en-passant target is the skipped square exactly after a pawn's
\* advance of two ranks and absent after every other move, and an en-passant
\* capture is offered only then, onto that square, to a pawn standing beside
\* the pawn that advanced
EnPassantWindow ==
    /\ board.en_passant_target =
          IF DoubleAdvance(board) THEN Skipped(board) ELSE NoTarget
    /\ LET legal_moves == generate_legal_moves(board, board.current_player).result
       IN \A i \in 1..Len(legal_moves) :
             legal_moves[i].is_en_passant =>
                 /\ DoubleAdvance(board)
                 /\ legal_moves[i].to_pos = Skipped(board)
                 /\ get_piece(board, legal_moves[i].from_pos[1],
                              legal_moves[i].from_pos[2]).type = PAWN
                 /\ legal_moves[i].from_pos[1] = LastMove(board).to_pos[1]
                 /\ Abs(legal_moves[i].from_pos[2] - LastMove(board).to_pos[2]) = 1

\* an en-passant capture is on offer
EnPassantOffered ==
    /\ board.en_passant_target # NoTarget
    /\ \E move \in PseudoMoves(board) :
          /\ move.is_en_passant
          /\ MoveIn(move, generate_legal_moves(board, board.current_player).result)

\* the k-th move of FoolsMate as a Move the caller builds
FoolsMateMove(k) ==
    PlainMove(parse_move_input(FoolsMate[k])[1], parse_move_input(FoolsMate[k])[2])

FoolsMatePlayed(b, n) ==
    /\ Played(b) = n
    /\ \A k \in 1..n : MoveEq(b.move_history[k], FoolsMateMove(k))

\* C10: from the initial position each of f2-f3, e7-e5, g2-g4, d8-h4 is
\* accepted by make_move with legality enforcement, and after the fourth
\* is_game_over reports checkmate with Black the winner
CheckmateScenario ==
    /\ \A n \in 0..3 :
          FoolsMatePlayed(board, n)
              => make_move(board, FoolsMateMove(n + 1), TRUE).result
    /\ FoolsMatePlayed(board, 4)
          => is_game_over(board).result = <<TRUE, BlackWins>>

\* the four moves have been played and White is in check
FoolsMateDone ==
    FoolsMatePlayed(board, 4) /\ is_in_check(board, WHITE)

----------------------------------------------------------------------------
(* Properties of the draw by no progress, checked under SpecFifty          *)

\* no pawn has left its home square and no piece has been captured: every ply
\* played so far was one without progress
Untouched(b) ==
    /\ \A col \in 0..7 :
          /\ b.board[1][col].type = PAWN /\ b.board[1][col].color = BLACK
          /\ b.board[6][col].type = PAWN /\ b.board[6][col].color = WHITE
    /\ Len(get_all_pieces(b, WHITE)) + Len(get_all_pieces(b, BLACK)) = 32

\* C6: once the plies without a pawn move or a capture number 100 or more,
\* is_game_over reports the game over as a draw by the 50-move rule
FiftyMoveDrawReported ==
    (Untouched(board) /\ Played(board) >= FiftyMoveLimit)
        => is_game_over(board).result = <<TRUE, FiftyMoveDraw>>

----------------------------------------------------------------------------
(* Properties of the search, checked under SpecBot                         *)

Maximum(values) == CHOOSE x \in values : \A y \in values : y <= x
Minimum(values) == CHOOSE x \in values : \A y \in values : x <= y

\* the value of a node by minimax over every move, without alpha and beta and
\* without ordering, with the terminal scores and the evaluator of the bot
RECURSIVE exhaustive(_, _, _, _)
exhaustive(self, board_, depth, maximizing) ==
    LET over == is_game_over(board_).result
        legal_moves == generate_legal_moves(board_, board_.current_player).result
        values == {exhaustive(self,
                              make_move(copy_board(board_), legal_moves[i], FALSE).self,
                              depth - 1, ~maximizing) : i \in 1..Len(legal_moves)}
    IN IF over[1] THEN terminal_score(self, over[2], depth)
       ELSE IF depth = 0 THEN evaluate_position(self, board_).result
       ELSE IF Len(legal_moves) = 0 THEN 0
       ELSE IF maximizing THEN Maximum(values) ELSE Minimum(values)

\* the value of the bot's move on the position by exhaustive minimax
exhaustive_move(self, board_, move) ==
    exhaustive(self, make_move(copy_board(board_), move, FALSE).self,
               self.difficulty - 1, FALSE)

\* the loop of get_best_move has run to its end
RootDone == Len(search) = 1 /\ Top.i > Len(Top.moves)

\* C7: the score get_best_move ends with is the greatest value exhaustive
\* minimax gives a legal move of the bot at the same depth, and it is the
\* exhaustive value of the move chosen
AlphaBetaEquivalence ==
    RootDone =>
        LET legal_moves == generate_legal_moves(board, bot.color).result
        IN /\ Top.value = Maximum({exhaustive_move(bot, board, legal_moves[i]) :
                                      i \in 1..Len(legal_moves)})
           /\ Top.value = exhaustive_move(bot, board, Top.best_move)

\* a search has ended on a mate in one after fewer calls of minimax than two
\* for each move of the root: loops were cut off
PrunedSearchDone ==
    /\ RootDone
    /\ Top.value = 10001
    /\ bot.nodes_searched < 2 * Len(Top.moves)

\* C8: get_best_move returns no move exactly when the bot's side has no legal
\* move on the position, and otherwise returns one of the legal moves of the
\* bot's side, at difficulty 1 and in the search
BestMoveIsLegal ==
    [][(last'.by = "bot" /\ search' = NoSearch) =>
           LET legal_moves == generate_legal_moves(board, bot.color).result
           IN /\ last'.move = NoMove <=> Len(legal_moves) = 0
              /\ last'.move # NoMove =>
                    \E i \in 1..Len(legal_moves) : legal_moves[i] = last'.move]_vars

\* get_best_move has returned no move to a bot that is checkmated
NoMoveReturned ==
    /\ last.by = "bot" /\ last.op = "get_best_move" /\ last.move = NoMove
    /\ is_in_check(board, bot.color)

\* C9: the authoritative position changes only in a make_move call of the
\* driver that returns True; get_best_move, minimax, order_moves,
\* generate_legal_moves, is_legal_move, is_checkmate, is_stalemate and
\* is_game_over leave every component of it as it was
NonInterference ==
    [][board' # board =>
           /\ last' # last
           /\ last'.op = "make_move" /\ last'.result
           /\ last'.by \in {"human", "bot"}
           /\ search' = NoSearch]_vars

\* a search is at work two loops deep on a copy that differs from the
\* authoritative position
SearchOnCopy ==
    /\ Len(search) = 2
    /\ Top.board # board
    /\ bot.nodes_searched > Len(search[1].moves)

----------------------------------------------------------------------------
(* Properties of make_move's bookkeeping, checked under Spec               *)

\* the move takes a piece: its destination is occupied before it is made, or
\* it is a pawn's diagonal step onto the en-passant target
Captures(b, move) ==
    \/ get_piece(b, move.to_pos[1], move.to_pos[2]) # None
    \/ /\ get_piece(b, move.from_pos[1], move.from_pos[2]).type = PAWN
       /\ move.to_pos = b.en_passant_target

\* C13: after a make_move call that returns True the halfmove clock is 0 when
\* the piece moved was a pawn or the move captured a piece, and otherwise its
\* earlier value plus one
HalfmoveCounter ==
    [][(last'.op = "make_move" /\ last'.result) =>
           board'.halfmove_clock =
               IF \/ get_piece(board, last'.move.from_pos[1],
                               last'.move.from_pos[2]).type = PAWN
                  \/ Captures(board, last'.move)
               THEN 0
               ELSE board.halfmove_clock + 1]_vars

\* the member of the legal moves that equals the move under Move.__eq__
LegalMember(legal_moves, move) ==
    SelectSeq(legal_moves, LAMBDA m : MoveEq(m, move))[1]

\* C14: a make_move call with legality enforcement that returns True leaves
\* the squares, the side to move and the en-passant target that applying the
\* equal member of the legal moves gives, whatever flags the caller set
MoveIdentity ==
    [][(last'.op = "make_move" /\ last'.result) =>
           \E applied \in {make_move_body(board,
                  LegalMember(generate_legal_moves(board,
                                  board.current_player).result,
                              last'.move)).self} :
              /\ board'.board = applied.board
              /\ board'.current_player = applied.current_player
              /\ board'.en_passant_target = applied.en_passant_target]_vars

----------------------------------------------------------------------------
(* Properties of the move input, checked under Spec                        *)

\* texts a player may type on any position: moves of the scripted games in
\* lower and upper case and between blanks, and texts that name no move
ProbeInputs ==
    { <<"e","2","e","4">>, <<" ","E","2","E","4"," ">>, <<"e","2","e","5">>,
      <<"e","1","g","1">>, <<"e","5","d","6">>, <<"b","7","a","8","n">>,
      <<"b","7","a","8","Q">>, <<"b","7","a","8">>, <<"b","7","a","8","k">>,
      <<"e","2">>, <<"e","2","e","4","e","5">>, <<"i","2","e","4">>,
      <<"e","0","e","4">>, <<"e","9","e","4">>, <<"e","e","e","4">>,
      <<"2","e","4","e">>, <<" "," ">>, <<>> }

\* the text without the blanks around it names two squares of the board by
\* file letter and rank digit, and after them nothing or one of q, r, b, n
NamesMove(text) ==
    /\ Len(text) \in {4, 5}
    /\ \A k \in {1, 3} : lower(text[k]) \in {Files[i] : i \in 1..8}
    /\ \A k \in {2, 4} : text[k] \in {Digits[i] : i \in 2..9}
    /\ Len(text) = 5 => lower(text[5]) \in {"q", "r", "b", "n"}

\* the blanks at both ends of each text of ProbeInputs, removed by hand
Trimmed(raw) == IF Len(raw) > 0 /\ raw[1] = " " THEN SubSeq(raw, 2, Len(raw) - 1) ELSE raw

\* C12: find_move_from_input leaves the position as it was, and returns
\* either no move, exactly when the text names no move or no legal move of
\* the side to move has the origin, destination and promotion it names, or
\* else a member of those legal moves that has them
FindMoveContract ==
    \A raw \in ProbeInputs :
        \E found \in {find_move_from_input(board, raw)} :
        \E legal_moves \in {generate_legal_moves(board, board.current_player).result} :
           LET text == Trimmed(raw)
               named == {i \in 1..Len(legal_moves) :
                           /\ NamesMove(text)
                           /\ legal_moves[i].from_pos
                                 = Sq(lower(text[1]), DigitValue(text[2]))
                           /\ legal_moves[i].to_pos
                                 = Sq(lower(text[3]), DigitValue(text[4]))
                           /\ legal_moves[i].promotion
                                 = IF Len(text) = 5 THEN lower(text[5])
                                   ELSE NoPromotion}
           IN /\ found.self = board
              /\ found.result = NoMove <=> named = {}
              /\ found.result # NoMove =>
                    \E i \in named : found.result = legal_moves[i]

\* a pawn stands ready to promote by capture: the text that names the
\* promotion in upper case finds it, the text without it finds nothing
PromotionTyped ==
    /\ find_move_from_input(board, <<"b","7","a","8","Q">>).result.promotion = QUEEN
    /\ find_move_from_input(board, <<"b","7","a","8">>).result = NoMove

----------------------------------------------------------------------------
(* Properties of the end of the game, checked under SpecLong               *)

\* C11: is_game_over classifies for the side to move: checkmate, won by the
\* other side, when it is in check and none of its moves leaves its king out
\* of check; otherwise stalemate when it is not in check and has no such
\* move; otherwise the draw by the 50-move rule when the halfmove clock is 100
\* or more; otherwise not over.  The clock is tried at values on both sides
\* of the limit on every position.
TerminalClassification ==
    \A clock \in {0, FiftyMoveLimit - 1, FiftyMoveLimit, FiftyMoveLimit + 1} :
        LET position == [board EXCEPT !.halfmove_clock = clock]
            side == position.current_player
            check == is_in_check(position, side)
            stuck == \A move \in PseudoMoves(position) :
                        get_piece(position, move.from_pos[1],
                                  move.from_pos[2]).color = side
                            => is_in_check(make_move(deepcopy(position), move,
                                                     FALSE).self, side)
        IN is_game_over(position).result =
              IF check /\ stuck
              THEN <<TRUE, IF side = WHITE THEN BlackWins ELSE WhiteWins>>
              ELSE IF stuck THEN <<TRUE, Stalemate>>
              ELSE IF clock >= FiftyMoveLimit THEN <<TRUE, FiftyMoveDraw>>
              ELSE <<FALSE, NoResult>>

\* the side to move has its king alone, out of check and without a move, and
\* is_game_over reports the stalemate
LoneKingStalemate ==
    /\ Len(get_all_pieces(board, board.current_player)) = 1
    /\ ~is_in_check(board, board.current_player)
    /\ is_game_over(board).result = <<TRUE, Stalemate>>

----------------------------------------------------------------------------
(* Properties of castling, checked under Spec                              *)

\* the king of the color castles towards the corner file among the moves
\* generate_king_moves lists for it
CastlingOffered(b, color, corner) ==
    \E ks \in {find_king(b, color)} :
    \E moves \in {generate_king_moves(b, ks[1], ks[2], color)} :
    \E i \in 1..Len(moves) :
        /\ moves[i].is_castling
        /\ moves[i].to_pos = <<ks[1], IF corner = 7 THEN 6 ELSE 2>>

\* a move of the game so far has left the square or arrived on it: a piece
\* that began the game there has moved or has been taken
Touched(b, sq) ==
    \E k \in 1..Played(b) :
        b.move_history[k].from_pos = sq \/ b.move_history[k].to_pos = sq

\* C15: for each side and each corner, generate_king_moves lists the castling
\* move exactly when no move of the game has touched the king's square or the
\* corner, the squares between them are empty, the king's square is not
\* attacked, and neither the square the king passes over nor the one it lands
\* on is attacked
CastlingEligibility ==
    \A color \in Colors, corner \in {0, 7} :
        LET row == IF color = WHITE THEN 7 ELSE 0
            between == IF corner = 7 THEN {5, 6} ELSE {1, 2, 3}
            crossed == IF corner = 7 THEN {5, 6} ELSE {2, 3}
        IN CastlingOffered(board, color, corner) <=>
              /\ ~Touched(board, <<row, 4>>)
              /\ ~Touched(board, <<row, corner>>)
              /\ \A col \in between : get_piece(board, row, col) = None
              /\ \A col \in crossed \cup {4} :
                    ~is_square_attacked(board, row, col, Opponent(color))

\* White's king and king's rook have not moved and stand with nothing
\* between them, the king is not in check, and the square the king would
\* pass over is attacked: no castling move is listed
CastlingAcrossAttack ==
    /\ ~Touched(board, <<7, 4>>) /\ ~Touched(board, <<7, 7>>)
    /\ get_piece(board, 7, 5) = None /\ get_piece(board, 7, 6) = None
    /\ ~is_in_check(board, WHITE)
    /\ is_square_attacked(board, 7, 5, BLACK)
    /\ ~CastlingOffered(board, WHITE, 7)

\* C16: once a move of the game has touched a side's king square, no castling
\* move is listed for that side in any later position, and once one has
\* touched a corner, none towards that corner, wherever the pieces stand
\* by then
CastlingRightsLost ==
    [][\A color \in Colors, corner \in {0, 7} :
          LET row == IF color = WHITE THEN 7 ELSE 0
          IN (Touched(board, <<row, 4>>) \/ Touched(board, <<row, corner>>))
                => /\ ~CastlingOffered(board, color, corner)
                   /\ ~CastlingOffered(board', color, corner)]_vars

\* a king and a rook of one side stand on their first squares with nothing
\* between them, after one of them has been away
BackOnFirstSquares ==
    \E color \in Colors :
        LET row == IF color = WHITE THEN 7 ELSE 0
        IN /\ get_piece(board, row, 4) = [type |-> KING, color |-> color,
                                          has_moved |-> TRUE]
              \/ get_piece(board, row, 7) = [type |-> ROOK, color |-> color,
                                             has_moved |-> TRUE]
           /\ get_piece(board, row, 4).type = KING
           /\ get_piece(board, row, 7).type = ROOK
           /\ get_piece(board, row, 5) = None /\ get_piece(board, row, 6) = None
           /\ ~is_in_check(board, color)
           /\ ~CastlingOffered(board, color, 7)

----------------------------------------------------------------------------
(* Properties of the en-passant capture, checked under Spec                *)

\* C17: an en-passant move, made by the driver or taken from the legal moves
\* of the side to move and applied, puts the capturing pawn on the
\* destination, empties the origin, empties the square on the destination's
\* file and the origin's rank, where the enemy pawn that has just advanced
\* two ranks stood, and leaves every other square as it was; the square of
\* the captured pawn is not the destination
EnPassantEffect ==
    [][LET Effect(before, after, move) ==
               LET from_pos == move.from_pos
                   to_pos == move.to_pos
                   taken == <<from_pos[1], to_pos[2]>>
               IN /\ taken # to_pos
                  /\ taken = LastMove(before).to_pos
                  /\ before.board[taken[1]][taken[2]].type = PAWN
                  /\ before.board[taken[1]][taken[2]].color
                        = Opponent(before.board[from_pos[1]][from_pos[2]].color)
                  /\ \A row \in 0..7, col \in 0..7 :
                        after.board[row][col] =
                            IF <<row, col>> = to_pos
                            THEN before.board[from_pos[1]][from_pos[2]]
                            ELSE IF <<row, col>> \in {from_pos, taken} THEN None
                            ELSE before.board[row][col]
           offered == generate_legal_moves(board, board.current_player).result
       IN /\ (last'.op = "make_move" /\ last'.result /\ last'.move.is_en_passant)
                => Effect(board, board', last'.move)
          /\ \A i \in 1..Len(offered) :
                offered[i].is_en_passant
                    => Effect(board, make_move(board, offered[i], TRUE).self,
                              offered[i])]_vars

\* an en-passant capture has just been made: the pawn stands on the target
\* square of the position before
EnPassantMade ==
    /\ last.op = "make_move" /\ last.result /\ last.move.is_en_passant
    /\ get_piece(board, last.move.to_pos[1], last.move.to_pos[2]).type = PAWN
    /\ get_piece(board, last.move.from_pos[1], last.move.to_pos[2]) = None

----------------------------------------------------------------------------
(* Properties of the evaluator, checked under Spec                         *)

\* the moves generated for the pieces of the side that do not leave the
\* side's own king in check
OwnKingSafe(b, side) ==
    {move \in PseudoMoves(b) :
        /\ get_piece(b, move.from_pos[1], move.from_pos[2]).color = side
        /\ ~is_in_check(make_move(deepcopy(b), move, FALSE).self, side)}

\* C18: on every position, whichever side is to move, evaluate_position for a
\* bot of either color returns the material and positional score, plus 10
\* times the number of moves of the bot's side that keep its own king out of
\* check less the number of such moves of the opponent, plus the king safety
\* terms, and leaves the position, its side to move included, as it was
MobilityTerm ==
    \A color \in Colors :
        \E self \in {ChessBot(color, 3)} :
        \E evaluated \in {evaluate_position(self, board)} :
           /\ evaluated.board = board
           /\ evaluated.result =
                 material(self, board, 1, 64)
                 + 10 * (Cardinality(OwnKingSafe(board, color))
                         - Cardinality(OwnKingSafe(board, Opponent(color))))
                 - (IF is_in_check(board, color) THEN 50 ELSE 0)
                 + (IF is_in_check(board, Opponent(color)) THEN 50 ELSE 0)

----------------------------------------------------------------------------
(* Properties of the search at the end of the game, checked under SpecLong *)

\* the greatest difficulty a ChessBot takes; minimax runs at depths below it
DifficultyLimit == 6

----------------------------------------------------------------------------
(* Properties of the choice at the root, checked under SpecBot             *)

\* the exhaustive values of the candidates of the root loop, in their order
RootValues ==
    [i \in 1..Len(Top.moves) |-> exhaustive_move(bot, board, Top.moves[i])] \o <<>>

\* C20: at difficulty 2 and above the candidates of get_best_move are the
\* legal moves of the bot's side, and the move it ends with is the first of
\* the ordered candidates whose value by exhaustive minimax is the greatest
\* among them
RootSelection ==
    RootDone =>
        \E values \in {RootValues} :
        \E legal_moves \in {generate_legal_moves(board, bot.color).result} :
           /\ bot.difficulty >= 2
           /\ {Top.moves[i] : i \in 1..Len(Top.moves)}
                 = {legal_moves[i] : i \in 1..Len(legal_moves)}
           /\ Len(Top.moves) = Len(legal_moves)
           /\ \E i \in 1..Len(values) :
                 /\ Top.best_move = Top.moves[i]
                 /\ \A j \in 1..Len(values) : values[j] <= values[i]
                 /\ \A j \in 1..(i - 1) : values[j] < values[i]

\* the loop of get_best_move has ended with a candidate that a later
\* candidate equals in value
TieAtRoot ==
    /\ RootDone
    /\ \E values \in {RootValues} :
       \E i \in 1..Len(values), j \in 1..Len(values) :
          /\ Top.best_move = Top.moves[i]
          /\ i < j
          /\ values[j] = values[i]

----------------------------------------------------------------------------
(* Properties of the move ordering, checked under SpecBot                  *)

\* C21: the moves of the loop at every node of the search, the bot's or the
\* opponent's, are the legal moves of the side to move at the node, each
\* once, in descending order of priority: twice the value of the piece on
\* the destination less the value of the piece moved, when the destination
\* holds a piece, plus the value of the promoted piece, plus 100 exactly
\* when the move leaves the opponent of the side that makes it in check
MoveOrdering ==
    search # NoSearch =>
        LET node == Top.board
            mover == node.current_player
            priority(move) ==
                LET victim == get_piece(node, move.to_pos[1], move.to_pos[2])
                    attacker == get_piece(node, move.from_pos[1], move.from_pos[2])
                IN (IF victim # None
                    THEN 2 * piece_values(victim.type) - piece_values(attacker.type)
                    ELSE 0)
                   + (IF move.promotion # NoPromotion
                      THEN piece_values(move.promotion) ELSE 0)
                   + (IF is_in_check(make_move(copy_board(node), move, FALSE).self,
                                     Opponent(mover))
                      THEN 100 ELSE 0)
        IN \E legal_moves \in {generate_legal_moves(node, mover).result} :
           \E keys \in {[i \in 1..Len(Top.moves) |-> priority(Top.moves[i])] \o <<>>} :
              /\ Len(Top.moves) = Len(legal_moves)
              /\ {Top.moves[i] : i \in 1..Len(Top.moves)}
                    = {legal_moves[i] : i \in 1..Len(legal_moves)}
              /\ \A i \in 1..Len(keys), j \in 1..Len(keys) :
                    i < j => Top.moves[i] # Top.moves[j] /\ keys[i] >= keys[j]

----------------------------------------------------------------------------
(* Properties of kings, promotions and counters, checked under Spec        *)

\* C22: in every position of a game played from the initial position by
\* moves make_move accepted with legality enforced, each side has exactly one
\* king, no move in the legal moves of the side to move lands on a king, and
\* none promotes to a king
KingInvariant ==
    /\ \A color \in Colors : Len(KingSquares(board, color)) = 1
    /\ \E legal_moves \in {generate_legal_moves(board, board.current_player).result} :
       \A i \in 1..Len(legal_moves) :
          /\ get_piece(board, legal_moves[i].to_pos[1],
                       legal_moves[i].to_pos[2]).type # KING
          /\ legal_moves[i].promotion # KING

\* the side to move is in check in the course of a game, and has a move
KingAttackedInPlay ==
    /\ last.op = "make_move" /\ last.result
    /\ Len(board.move_history) > 1
    /\ is_in_check(board, board.current_player)
    /\ Len(generate_legal_moves(board, board.current_player).result) > 0

\* the moves of the sequence that land on the square
MovesTo(moves, to_pos) == {j \in 1..Len(moves) : moves[j].to_pos = to_pos}

\* C23: the moves generate_pawn_moves lists for a pawn onto its final rank
\* come, for each destination, as exactly four moves, one each promoting to
\* queen, rook, bishop and knight; a move that stops short of the final rank
\* promotes to nothing; a promoting move, applied, leaves the origin empty
\* and a piece of the promoted kind and the pawn's colour on the destination;
\* and no pawn stands on the first or the last rank
PromotionInvariant ==
    \A row \in 0..7, col \in 0..7 :
        LET piece == get_piece(board, row, col)
            promotion_row == IF piece.color = WHITE THEN 0 ELSE 7
        IN (piece # None /\ piece.type = PAWN) =>
              /\ row \notin {0, 7}
              /\ \E moves \in {generate_pawn_moves(board, row, col, piece.color)} :
                 \A i \in 1..Len(moves) :
                    IF moves[i].to_pos[1] = promotion_row
                    THEN /\ Cardinality(MovesTo(moves, moves[i].to_pos)) = 4
                         /\ {moves[j].promotion : j \in MovesTo(moves, moves[i].to_pos)}
                               = {QUEEN, ROOK, BISHOP, KNIGHT}
                         /\ \E made \in {make_move(board, moves[i], FALSE)} :
                               /\ made.result
                               /\ get_piece(made.self, row, col) = None
                               /\ get_piece(made.self, moves[i].to_pos[1],
                                            moves[i].to_pos[2]).type
                                     = moves[i].promotion
                               /\ get_piece(made.self, moves[i].to_pos[1],
                                            moves[i].to_pos[2]).color
                                     = piece.color
                    ELSE moves[i].promotion = NoPromotion

\* a pawn one step from its final rank may promote by advancing and by
\* capturing
PushAndCapturePromotion ==
    \E col \in 0..7 :
        /\ get_piece(board, 1, col) # None
        /\ get_piece(board, 1, col).type = PAWN
        /\ get_piece(board, 1, col).color = WHITE
        /\ \E moves \in {generate_pawn_moves(board, 1, col, WHITE)} :
              /\ MovesTo(moves, <<0, col>>) # {}
              /\ \E j \in 1..Len(moves) : moves[j].to_pos[2] # col

\* C24: the history starts empty and the full-move number at 1; a make_move
\* call that returns True appends its move to the history and adds one to the
\* full-move number exactly when Black made the move, a call that returns
\* False leaves both; so the full-move number is always one more than the
\* number of Black's moves in the history
Bookkeeping ==
    [][/\ board.fullmove_number
             = 1 + Cardinality({k \in 1..Len(board.move_history) : k % 2 = 0})
       /\ (last'.op = "make_move" /\ last'.result) =>
             /\ board'.move_history = Append(board.move_history, last'.move)
             /\ board'.fullmove_number =
                   board.fullmove_number
                      + (IF get_piece(board, last'.move.from_pos[1],
                                      last'.move.from_pos[2]).color = BLACK
                         THEN 1 ELSE 0)
       /\ (last'.op # "make_move" \/ ~last'.result) =>
             /\ board'.move_history = board.move_history
             /\ board'.fullmove_number = board.fullmove_number
       /\ board'.fullmove_number
             = 1 + Cardinality({k \in 1..Len(board'.move_history) : k % 2 = 0})]_vars

\* a make_move call has failed after Black's second move
FailedAfterBlackMoved ==
    /\ last.op = "make_move" /\ ~last.result
    /\ Len(board.move_history) = 4
    /\ board.fullmove_number = 3

====
